---- MODULE Spec2Model ----
(***************************************************************************)
(* A model of the GroBro gateway's Modbus codec (grobro/model), of the     *)
(* inbound-message handler and of the forwarding-connection cache          *)
(* (grobro/grobro/client.py).                                              *)
(*                                                                         *)
(* Python values are represented as follows:                               *)
(*   bytes            a sequence of integers 0..255; where an operation    *)
(*                    returns bytes, None or an exception, the bytes are   *)
(*                    wrapped as Bytes(b) so that the outcomes compare     *)
(*   str              a sequence of code points (ASCII only occurs)        *)
(*   None             the record NoneVal                                   *)
(*   a raised         the record Raised (the caller's except clause, if    *)
(*   exception        any, decides what becomes of it)                     *)
(***************************************************************************)
EXTENDS Integers, Sequences, FiniteSets, TLC

VARIABLES
    buffer,      \* parse_grobro: the argument `buffer`
    pc,          \* position of the running operation
    frame,       \* parse_grobro: its local variables
    result,      \* parse_grobro: the value returned (NoneVal after an exception)
    msg,         \* the GrowattModbusMessage handed to build_grobro
    built,       \* build_grobro: the bytes returned, or Raised
    query,       \* get_data: the GrowattRegisterPosition asked for
    data,        \* get_data: the value returned
    env,         \* client.py: GROWATT_CLOUD and DUMP_MESSAGES of the environment
    catalog,     \* KNOWN_NEO_REGISTERS, KNOWN_NOAH_REGISTERS, KNOWN_NEXA_REGISTERS
    forward_clients,  \* Client._forward_clients: device id -> its connection
    connections, \* device id -> number of forwarding connections made for it
    inflight,    \* the message the network loop is about to hand to the handler
    handled,     \* the last inbound message a handler finished, and what it did
    outbox,      \* the messages send_command has published
    threads,     \* concurrent handlers: position and locals of each
    sender       \* send_command: its position, argument and locals

codecVars == <<buffer, pc, frame, result, msg, built, query, data>>

clientVars ==
    <<env, catalog, forward_clients, connections, inflight, handled, outbox, threads,
      sender>>

vars == <<buffer, pc, frame, result, msg, built, query, data,
          env, catalog, forward_clients, connections, inflight, handled, outbox,
          threads, sender>>

-----------------------------------------------------------------------------
(* Python values *)

NoneVal == [none |-> TRUE]

Raised == [raised |-> TRUE]

Bytes(b) == [bytes |-> b]

Min(a, b) == IF a < b THEN a ELSE b

Max(a, b) == IF a > b THEN a ELSE b

\* s[a:b] on a bytes or str value: a negative index counts from the end, and
\* both ends are clamped to the sequence.
PyIndex(i, n) == IF i < 0 THEN Max(i + n, 0) ELSE Min(i, n)

PySlice(s, a, b) == SubSeq(s, PyIndex(a, Len(s)) + 1, PyIndex(b, Len(s)))

\* struct.pack(">H", x) and struct.unpack(">H", b)
PackH(x) == <<x \div 256, x % 256>>

UnpackH(b) == b[1] * 256 + b[2]

\* big-endian unsigned integer of a 1, 2 or 4 byte span ("!B", "!H", "!I")
RECURSIVE UnpackUInt(_)
UnpackUInt(b) == IF b = <<>> THEN 0
                 ELSE UnpackUInt(SubSeq(b, 1, Len(b) - 1)) * 256 + b[Len(b)]

\* bytes.decode("ascii", errors="ignore")
DecodeAsciiIgnore(b) == SelectSeq(b, LAMBDA x : x < 128)

\* str.strip("\x00"): NULs are removed at both ends
StripNul(s) ==
    LET nz == {i \in 1..Len(s) : s[i] # 0}
    IN  IF nz = {} THEN <<>>
        ELSE SubSeq(s, CHOOSE i \in nz : \A j \in nz : i <= j,
                       CHOOSE i \in nz : \A j \in nz : i >= j)

\* bytes.ljust(n, b"\x00"): pads, never truncates
LJust(b, n) == b \o [i \in 1..Max(n - Len(b), 0) |-> 0]

\* the "30s" field of struct.pack: padded with NULs and cut to 30 bytes
DeviceIdLen == 30

Pack30s(b) == SubSeq(LJust(b, DeviceIdLen), 1, DeviceIdLen)

\* all(32 <= b <= 126 or b == 0 for b in block_bytes)
AllPrintable(b) == \A i \in 1..Len(b) : (32 <= b[i] /\ b[i] <= 126) \/ b[i] = 0

-----------------------------------------------------------------------------
(* grobro/model/modbus_message.py *)

\* GrowattModbusFunction
READ_HOLDING_REGISTER == 3

READ_INPUT_REGISTER == 4

READ_SINGLE_REGISTER == 5

PRESET_SINGLE_REGISTER == 6

PRESET_MULTIPLE_REGISTER == 16

GrowattModbusFunction ==
    {READ_HOLDING_REGISTER, READ_INPUT_REGISTER, READ_SINGLE_REGISTER,
     PRESET_SINGLE_REGISTER, PRESET_MULTIPLE_REGISTER}

\* struct.calcsize(HEADER_STRUCT), HEADER_STRUCT = ">HHHBB30s"
HeaderSize == 38

\* GrowattMetadata.size
MetadataSize == 37

\* datetime(year, month, day, hour, minute, second, microsecond=...) raises
\* ValueError unless the fields name a moment of the calendar
DaysInMonth(y, m) ==
    IF m \in {4, 6, 9, 11} THEN 30
    ELSE IF m # 2 THEN 31
    ELSE IF (y % 4 = 0 /\ y % 100 # 0) \/ y % 400 = 0 THEN 29 ELSE 28

ValidDatetime(y, mo, d, h, mi, s, us) ==
    /\ 1 <= mo /\ mo <= 12
    /\ 1 <= d /\ d <= DaysInMonth(y, mo)
    /\ h < 24 /\ mi < 60 /\ s < 60 /\ us < 1000000

\* GrowattMetadata.parse_grobro: Raised when struct.unpack gets a short slice
MetadataParse(buf) ==
    LET serial == PySlice(buf, 0, 30)
        t      == PySlice(buf, 30, 37)
    IN  IF Len(serial) # 30 \/ Len(t) # 7 THEN Raised
        ELSE [device_sn |-> StripNul(DecodeAsciiIgnore(serial)),
              timestamp |->
                  IF ValidDatetime(t[1] + 2000, t[2], t[3], t[4], t[5], t[6], t[7] * 1000)
                  THEN [year |-> t[1] + 2000, month |-> t[2], day |-> t[3],
                        hour |-> t[4], minute |-> t[5], second |-> t[6],
                        microsecond |-> t[7] * 1000]
                  ELSE NoneVal]

\* GrowattMetadata.build_grobro: Raised when timestamp is None (AttributeError)
\* or a field does not fit its byte (struct.error)
MetadataBuild(md) ==
    IF md.timestamp = NoneVal THEN Raised
    ELSE LET ts == md.timestamp
             t  == <<ts.year - 2000, ts.month, ts.day, ts.hour, ts.minute,
                     ts.second, ts.microsecond \div 1000>>
         IN  IF \E i \in 1..7 : t[i] < 0 \/ t[i] > 255 THEN Raised
             ELSE Bytes(Pack30s(md.device_sn) \o t)

\* GrowattModbusBlock.build_grobro and GrowattModbusBlock.size
BlockBuild(b) ==
    IF b.start \notin 0..65535 \/ b.end \notin 0..65535 THEN Raised
    ELSE Bytes(PackH(b.start) \o PackH(b.end) \o b.values)

BlockSize(b) == 4 + Len(b.values)

\* GrowattModbusFunctionMultipleSerial.build_grobro and .size
SerialBuild(b) ==
    IF b.start \notin 0..65535 \/ b.end \notin 0..65535 THEN Raised
    ELSE Bytes(PackH(b.start) \o PackH(b.end)
               \o LJust(b.value, (b.end - b.start + 1) * 2))

SerialSize(b) == 4 + (b.end - b.start + 1) * 2

RECURSIVE SumSizes(_, _)
SumSizes(blocks, serial) ==
    IF blocks = <<>> THEN 0
    ELSE (IF serial THEN SerialSize(blocks[1]) ELSE BlockSize(blocks[1]))
         + SumSizes(Tail(blocks), serial)

\* GrowattModbusMessage.msg_len
MsgLenBase == 32

\* msg_len with the metadata's 37 bytes left out (a mutation of msg_len)
msg_len_without_metadata(m) ==
    MsgLenBase
    + SumSizes(m.register_blocks, FALSE)
    + SumSizes(m.multiple_serial_blocks, TRUE)

msg_len(m) ==
    MsgLenBase
    + (IF m.metadata # NoneVal THEN MetadataSize ELSE 0)
    + SumSizes(m.register_blocks, FALSE)
    + SumSizes(m.multiple_serial_blocks, TRUE)

\* the concatenation of the blocks' build_grobro, Raised if one of them raises
RECURSIVE BuildAll(_, _)
BuildAll(blocks, serial) ==
    IF blocks = <<>> THEN Bytes(<<>>)
    ELSE LET head == IF serial THEN SerialBuild(blocks[1]) ELSE BlockBuild(blocks[1])
             rest == BuildAll(Tail(blocks), serial)
         IN  IF head = Raised \/ rest = Raised THEN Raised
             ELSE Bytes(head.bytes \o rest.bytes)

\* struct.pack(HEADER_STRUCT, unknown, 7, length, 1, function, device_id)
PackHeader(unknown, c7, length, c1, function, device_id) ==
    PackH(unknown) \o PackH(c7) \o PackH(length) \o <<c1, function>> \o Pack30s(device_id)

\* GrowattModbusMessage.build_grobro
build_grobro(m) ==
    LET md == IF m.metadata # NoneVal THEN MetadataBuild(m.metadata) ELSE Bytes(<<>>)
        rb == BuildAll(m.register_blocks, FALSE)
        sb == BuildAll(m.multiple_serial_blocks, TRUE)
    IN  IF \/ m.unknown \notin 0..65535
           \/ msg_len(m) \notin 0..65535
           \/ md = Raised \/ rb = Raised \/ sb = Raised
        THEN Raised
        ELSE Bytes(PackHeader(m.unknown, 7, msg_len(m), 1, m.function, m.device_id)
                   \o md.bytes \o rb.bytes \o sb.bytes)

\* the loop of parse_grobro is followed for at most MaxIter iterations
MaxIter == 4

Diverges == [diverges |-> TRUE]

\* GrowattModbusMessage.parse_grobro up to its loop: the header, the function
\* check and the metadata. An exception is caught by the except clause of
\* parse_grobro, which falls off the end of the function (None).
ParseStart(buf) ==
    LET head == PySlice(buf, 0, HeaderSize)
        exit == [pc |-> "done", frame |-> NoneVal, result |-> NoneVal]
    IN  IF Len(head) # HeaderSize THEN exit
        ELSE
        LET unknown   == UnpackH(SubSeq(head, 1, 2))
            function  == head[8]
            device_id == StripNul(DecodeAsciiIgnore(SubSeq(head, 9, HeaderSize)))
            metadata  == IF function = READ_INPUT_REGISTER
                         THEN MetadataParse(PySlice(buf, HeaderSize, Len(buf)))
                         ELSE NoneVal
        IN  IF function \notin GrowattModbusFunction \/ metadata = Raised THEN exit
            ELSE [pc     |-> "loop",
                  result |-> NoneVal,
                  frame  |-> [unknown   |-> unknown,
                              device_id |-> device_id,
                              function  |-> function,
                              metadata  |-> metadata,
                              offset    |-> HeaderSize
                                  + (IF function = READ_INPUT_REGISTER
                                     THEN MetadataSize ELSE 0),
                              register_blocks        |-> <<>>,
                              multiple_serial_blocks |-> <<>>]]

\* while len(buffer) > offset + 4
LoopCond(buf, f) == Len(buf) > f.offset + 4

\* offset += 4 + num_regs * 2
Advance(start, end) == 4 + (end - start + 1) * 2

\* one iteration of the loop of parse_grobro
LoopBody(buf, f) ==
    LET hdr == PySlice(buf, f.offset, f.offset + 4)
    IN  IF Len(hdr) # 4
        THEN [pc |-> "done", frame |-> f, result |-> NoneVal]
        ELSE
        LET start       == UnpackH(SubSeq(hdr, 1, 2))
            end         == UnpackH(SubSeq(hdr, 3, 4))
            num_regs    == end - start + 1
            block_bytes == PySlice(buf, f.offset + 4, f.offset + 4 + num_regs * 2)
            g == IF AllPrintable(block_bytes)
                 THEN [f EXCEPT !.multiple_serial_blocks =
                          Append(@, [device_id |-> f.device_id,
                                     function  |-> f.function,
                                     start     |-> start,
                                     end       |-> end,
                                     value     |-> StripNul(DecodeAsciiIgnore(block_bytes))])]
                 ELSE [f EXCEPT !.register_blocks =
                          Append(@, [start |-> start, end |-> end,
                                     values |-> block_bytes])]
        IN  [pc |-> "loop", result |-> NoneVal,
             frame |-> [g EXCEPT !.offset = @ + Advance(start, end)]]

\* return GrowattModbusMessage(...)
Message(f) ==
    [unknown   |-> f.unknown,
     device_id |-> f.device_id,
     function  |-> f.function,
     metadata  |-> f.metadata,
     register_blocks        |-> f.register_blocks,
     multiple_serial_blocks |-> f.multiple_serial_blocks]

RECURSIVE ParseLoop(_, _, _)
ParseLoop(buf, f, fuel) ==
    IF ~LoopCond(buf, f) THEN Message(f)
    ELSE IF fuel = 0 THEN Diverges
    ELSE LET r == LoopBody(buf, f)
         IN  IF r.pc = "done" THEN r.result ELSE ParseLoop(buf, r.frame, fuel - 1)

\* GrowattModbusMessage.parse_grobro as a function of the buffer: the message,
\* NoneVal, or Diverges when the loop is still running after MaxIter iterations
parse_grobro(buf) ==
    LET s == ParseStart(buf)
    IN  IF s.pc = "done" THEN s.result ELSE ParseLoop(buf, s.frame, MaxIter)

\* GrowattModbusMessage.get_data: NoneVal, or Bytes of the slice
Covers(block, pos) == block.start <= pos.register_no /\ pos.register_no <= block.end

BlockPos(block, pos) == (pos.register_no - block.start) * 2 + pos.offset

FirstCovering(blocks, pos) ==
    LET hit == {i \in 1..Len(blocks) : Covers(blocks[i], pos)}
    IN  IF hit = {} THEN 0 ELSE CHOOSE i \in hit : \A j \in hit : i <= j

get_data(m, pos) ==
    LET r == FirstCovering(m.register_blocks, pos)
        q == FirstCovering(m.multiple_serial_blocks, pos)
    IN  IF r # 0
        THEN LET block == m.register_blocks[r]
             IN  Bytes(PySlice(block.values, BlockPos(block, pos),
                               BlockPos(block, pos) + pos.size))
        ELSE IF q # 0
        THEN LET block == m.multiple_serial_blocks[q]
             IN  Bytes(PySlice(block.value, BlockPos(block, pos),
                               BlockPos(block, pos) + pos.size))
        ELSE NoneVal

-----------------------------------------------------------------------------
(* grobro/model/growatt_registers.py *)

\* Decoded register values: an int, a float, a str; NoneVal; Raised.
\* A float is round(raw * multiplier + delta, 3); it is held as raw with the
\* multiplier and the delta in thousandths (the product itself would leave
\* the range of the checker's integers), so its value in thousandths is
\* raw * multiplier + delta. Multipliers are positive.
IntVal(n) == [t |-> "int", v |-> n]

FloatVal(raw, multiplier, delta) ==
    [t |-> "float", raw |-> raw, multiplier |-> multiplier, delta |-> delta]

\* value > n and value == n for a float value and an int n
FloatGreater(value, n) ==
    value.raw > (n * 1000 - value.delta) \div value.multiplier

FloatEquals(value, n) ==
    /\ (n * 1000 - value.delta) % value.multiplier = 0
    /\ value.raw = (n * 1000 - value.delta) \div value.multiplier

StrVal(str) == [t |-> "str", v |-> str]

\* GrowattRegisterDataType.parse. data_raw is NoneVal or Bytes(b), as get_data
\* returns it. float_options hold multiplier and delta in thousandths;
\* enum_options.values is the set of the dict's items [key, name].
parse(dt, data_raw) ==
    IF data_raw = NoneVal \/ data_raw.bytes = <<>> THEN NoneVal
    ELSE
    LET raw   == data_raw.bytes
        value == UnpackUInt(raw)
    IN  IF Len(raw) \notin {1, 2, 4} THEN Raised
        ELSE CASE dt.data_type = "FLOAT" ->
                    IF dt.float_options = NoneVal THEN Raised
                    ELSE FloatVal(value, dt.float_options.multiplier,
                                  dt.float_options.delta)
               [] dt.data_type = "TIME_HHMM" ->
                    IntVal((value \div 256) * 100 + (value % 256))
               [] dt.data_type = "INT" -> IntVal(value)
               [] dt.data_type = "ENUM" ->
                    IF dt.enum_options = NoneVal THEN Raised
                    ELSE IF dt.enum_options.enum_type = "BITFIELD" THEN NoneVal
                    ELSE IF dt.enum_options.enum_type = "INT_MAP"
                    THEN IF \E e \in dt.enum_options.values :
                                e.key = value /\ e.name # ""
                         THEN IntVal(value)
                         ELSE NoneVal
                    ELSE NoneVal
               [] dt.data_type = "STRING" -> StrVal(StripNul(DecodeAsciiIgnore(raw)))

\* GrowattRegisterPosition(register_no, offset=0, size=2)
Position(register_no, offset, size) ==
    [register_no |-> register_no, offset |-> offset, size |-> size]

\* CONTROL_FW_HIGH, CONTROL_FW_MID, CONTROL_FW_LOW
IntType == [data_type |-> "INT", float_options |-> NoneVal, enum_options |-> NoneVal]

CONTROL_FW_HIGH == [position |-> Position(12, 0, 2), data |-> IntType]

CONTROL_FW_MID == [position |-> Position(13, 0, 2), data |-> IntType]

CONTROL_FW_LOW == [position |-> Position(14, 0, 2), data |-> IntType]

\* the entries the module adds to KNOWN_NOAH_REGISTERS.input_registers
NoahFirmwareRegisters ==
    <<[name |-> "firmware_version", growatt |-> CONTROL_FW_HIGH],
      [name |-> "control_fw_high", growatt |-> CONTROL_FW_HIGH],
      [name |-> "control_fw_mid", growatt |-> CONTROL_FW_MID],
      [name |-> "control_fw_low", growatt |-> CONTROL_FW_LOW]>>

-----------------------------------------------------------------------------
(* Inputs: device ids, register blocks as they lie on the wire, buffers *)

\* "QMN1", "0PVP2", "0HVR3" and "XYZ9" as code points
QMN1 == <<81, 77, 78, 49>>

PVP2 == <<48, 80, 86, 80, 50>>

HVR3 == <<48, 72, 86, 82, 51>>

XYZ9 == <<88, 89, 90, 57>>

\* register numbers a block header may name
RegNos == {0, 1, 3}

\* value bytes of n bytes: all NUL, printable ASCII, NUL followed by ASCII,
\* and two binary patterns (a small number and one above 1,000,000 in 4 bytes)
Kinds == {"nul", "ascii", "mixed", "low", "high"}

Fill(kind, n) ==
    [i \in 1..n |->
        CASE kind = "nul"   -> 0
          [] kind = "ascii" -> 65 + (i % 2)
          [] kind = "mixed" -> IF i = 1 THEN 0 ELSE 65
          [] kind = "low"   -> IF i % 2 = 1 THEN 0 ELSE 3
          [] kind = "high"  -> IF i % 2 = 1 THEN 0 ELSE 16]

\* a block on the wire: ">HH" start, end, then (end - start + 1) * 2 value bytes
WireBlock(start, end, kind) ==
    PackH(start) \o PackH(end) \o Fill(kind, Max((end - start + 1) * 2, 0))

WireBlocks == {WireBlock(st, en, k) : st \in RegNos, en \in RegNos, k \in Kinds}

RECURSIVE WireTails(_)
WireTails(n) ==
    IF n = 0 THEN {<<>>}
    ELSE LET t == WireTails(n - 1)
         IN  t \cup {a \o b : a \in t, b \in WireBlocks}

\* the last k bytes removed (a buffer that ends early)
CutTail(t, k) == SubSeq(t, 1, Max(Len(t) - k, 0))

\* the 37 metadata bytes: a serial, then a timestamp (valid, or with month 0)
WireMetadata(valid) ==
    Pack30s(QMN1) \o <<25, IF valid THEN 6 ELSE 0, 1, 12, 30, 15, 5>>

\* a whole buffer; lenKind says what the header's length field holds
WireBuffer(unknown, lenKind, function, device_id, body) ==
    LET total == HeaderSize + Len(body)
        length == CASE lenKind = "after6" -> total - 6
                    [] lenKind = "after8" -> total - 8
                    [] lenKind = "wrong"  -> total + 1
    IN  PackHeader(unknown, 7, length, 1, function, device_id) \o body

ParseMaxBlocks == 2

ParseMaxCut == 2

\* buffers that vary the header over a few bodies, and buffers that vary the
\* body (blocks, early end) under the header of a READ_HOLDING_REGISTER or
\* READ_INPUT_REGISTER message
HeaderInputs ==
    LET bodies == {<<>>, WireBlock(0, 0, "low"),
                   WireMetadata(TRUE) \o WireBlock(0, 1, "high"),
                   WireMetadata(FALSE) \o WireBlock(1, 1, "ascii"),
                   SubSeq(WireMetadata(TRUE), 1, 20)}
    IN  {WireBuffer(1, lk, fn, QMN1, b) :
            lk \in {"after6", "after8", "wrong"},
            fn \in GrowattModbusFunction \cup {0, 7},
            b \in bodies}
        \cup {SubSeq(WireBuffer(1, "after6", 3, QMN1, <<>>), 1, n) : n \in {0, 8, 37}}

BodyInputs ==
    {WireBuffer(1, "after6", fn.code, PVP2, fn.meta \o CutTail(t, k)) :
        fn \in {[code |-> READ_HOLDING_REGISTER, meta |-> <<>>],
                [code |-> READ_INPUT_REGISTER, meta |-> WireMetadata(TRUE)]},
        t \in WireTails(ParseMaxBlocks),
        k \in 0..ParseMaxCut}

ParseInputs == HeaderInputs \cup BodyInputs

\* register positions asked of get_data
Positions ==
    {[register_no |-> r, offset |-> 0, size |-> z] : r \in {0, 1, 2, 3}, z \in {2, 4}}
    \cup {[register_no |-> 0, offset |-> 1, size |-> 1]}

-----------------------------------------------------------------------------
(* parse_grobro, one step per loop iteration, and get_data on its result *)

Iterations == Len(frame.register_blocks) + Len(frame.multiple_serial_blocks)

\* the client is not involved in the codec's specifications
ClientIdle ==
    /\ env = NoneVal
    /\ catalog = NoneVal
    /\ forward_clients = <<>>
    /\ connections = <<>>
    /\ inflight = NoneVal
    /\ handled = NoneVal
    /\ outbox = <<>>
    /\ threads = <<>>
    /\ sender = NoneVal

ParseBegin ==
    /\ pc = "start"
    /\ LET st == ParseStart(buffer)
       IN  /\ pc' = st.pc
           /\ frame' = st.frame
           /\ result' = st.result
    /\ UNCHANGED <<buffer, msg, built, query, data>>
    /\ UNCHANGED clientVars

ParseIterate ==
    /\ pc = "loop"
    /\ LoopCond(buffer, frame)
    /\ Iterations < MaxIter
    /\ LET st == LoopBody(buffer, frame)
       IN  /\ pc' = st.pc
           /\ frame' = st.frame
           /\ result' = st.result
    /\ UNCHANGED <<buffer, msg, built, query, data>>
    /\ UNCHANGED clientVars

ParseReturn ==
    /\ pc = "loop"
    /\ ~LoopCond(buffer, frame)
    /\ pc' = "done"
    /\ result' = Message(frame)
    /\ UNCHANGED <<buffer, frame, msg, built, query, data>>
    /\ UNCHANGED clientVars

GetData ==
    /\ pc = "done"
    /\ result # NoneVal
    /\ \E pos \in Positions :
          /\ query' = pos
          /\ data' = get_data(result, pos)
    /\ pc' = "got"
    /\ UNCHANGED <<buffer, frame, result, msg, built>>
    /\ UNCHANGED clientVars

InitParse ==
    /\ buffer \in ParseInputs
    /\ pc = "start"
    /\ frame = NoneVal
    /\ result = NoneVal
    /\ msg = NoneVal
    /\ built = NoneVal
    /\ query = NoneVal
    /\ data = NoneVal
    /\ ClientIdle

NextParse == ParseBegin \/ ParseIterate \/ ParseReturn \/ GetData

SpecParse == InitParse /\ [][NextParse]_vars

-----------------------------------------------------------------------------
(* build_grobro of a message, then parse_grobro of the bytes it built *)

BuildMaxBlocks == 2

\* GrowattModbusBlock values: the range and exactly (end - start + 1) * 2 bytes
ModelBlocks ==
    {[start |-> r[1], end |-> r[2], values |-> Fill(k, (r[2] - r[1] + 1) * 2)] :
        r \in {<<0, 0>>, <<0, 1>>, <<1, 3>>}, k \in {"nul", "ascii", "low"}}

RECURSIVE BlockLists(_)
BlockLists(n) ==
    IF n = 0 THEN {<<>>}
    ELSE LET t == BlockLists(n - 1)
         IN  t \cup {Append(a, b) : a \in t, b \in ModelBlocks}

\* GrowattModbusFunctionMultipleSerial values; <<66, 65, 66>> does not fit
\* the two bytes of the range 0..0
ModelSerialLists(device_id, function) ==
    {<<>>}
    \cup {<<[device_id |-> device_id, function |-> function,
             start |-> 0, end |-> e, value |-> v]>> :
            e \in {0, 1}, v \in {<<>>, <<66>>, <<66, 65, 66>>}}

\* GrowattMetadata values: a timestamp, no timestamp, a timestamp whose
\* milliseconds do not fit one byte
ModelTimestamp(us) ==
    [year |-> 2025, month |-> 6, day |-> 1, hour |-> 12, minute |-> 30,
     second |-> 15, microsecond |-> us]

ModelMetadata ==
    {[device_sn |-> QMN1, timestamp |-> ModelTimestamp(5000)],
     [device_sn |-> QMN1, timestamp |-> NoneVal],
     [device_sn |-> QMN1, timestamp |-> ModelTimestamp(300000)]}

ModelMessage(unknown, device_id, function, metadata, blocks, serial) ==
    [unknown   |-> unknown,
     device_id |-> device_id,
     function  |-> function,
     metadata  |-> metadata,
     register_blocks        |-> blocks,
     multiple_serial_blocks |-> serial]

\* messages that vary the header fields and the metadata over a few block
\* lists, and messages that vary the block lists
BuildInputs ==
    {ModelMessage(u, d, fn, md, b, <<>>) :
        u \in {1, 513}, d \in {QMN1, PVP2}, fn \in GrowattModbusFunction,
        md \in ModelMetadata \cup {NoneVal},
        b \in {<<>>, <<[start |-> 0, end |-> 0, values |-> Fill("low", 2)]>>}}
    \cup
    UNION {{ModelMessage(1, QMN1, fn.code, fn.meta, b, sb) :
                b \in BlockLists(BuildMaxBlocks),
                sb \in ModelSerialLists(QMN1, fn.code)} :
        fn \in {[code |-> READ_HOLDING_REGISTER, meta |-> NoneVal],
                [code |-> READ_INPUT_REGISTER,
                 meta |-> [device_sn |-> QMN1, timestamp |-> ModelTimestamp(5000)]]}}

Build ==
    /\ pc = "build"
    /\ built' = build_grobro(msg)
    /\ IF built' = Raised
       THEN pc' = "raised" /\ buffer' = buffer
       ELSE pc' = "start" /\ buffer' = built'.bytes
    /\ UNCHANGED <<frame, result, msg, query, data>>
    /\ UNCHANGED clientVars

InitBuild ==
    /\ msg \in BuildInputs
    /\ pc = "build"
    /\ buffer = <<>>
    /\ frame = NoneVal
    /\ result = NoneVal
    /\ built = NoneVal
    /\ query = NoneVal
    /\ data = NoneVal
    /\ ClientIdle

NextBuild == Build \/ ParseBegin \/ ParseIterate \/ ParseReturn

SpecBuild == InitBuild /\ [][NextBuild]_vars

-----------------------------------------------------------------------------
(* Claims about the codec *)

\* the header's length field, ">H" at bytes 4..5
LengthField(buf) == UnpackH(SubSeq(buf, 5, 6))

Parsed == pc \in {"done", "got"} /\ result # NoneVal

\* The blocks of a buffer as section 6 of the specification lays them out:
\* after the header (and the metadata of a READ_INPUT_REGISTER message), each
\* block is start, end and (end - start + 1) * 2 value bytes. ok is FALSE
\* when the buffer does not consist of whole blocks with end >= start.
RECURSIVE LayoutFrom(_, _)
LayoutFrom(buf, off) ==
    IF off = Len(buf) THEN [ok |-> TRUE, blocks |-> <<>>]
    ELSE IF off + 4 > Len(buf) THEN [ok |-> FALSE, blocks |-> <<>>]
    ELSE LET start == UnpackH(SubSeq(buf, off + 1, off + 2))
             end   == UnpackH(SubSeq(buf, off + 3, off + 4))
             n     == (end - start + 1) * 2
         IN  IF end < start \/ off + 4 + n > Len(buf)
             THEN [ok |-> FALSE, blocks |-> <<>>]
             ELSE LET rest == LayoutFrom(buf, off + 4 + n)
                  IN  [ok |-> rest.ok,
                       blocks |-> <<[start |-> start, end |-> end,
                                     values |-> SubSeq(buf, off + 5, off + 4 + n)]>>
                                  \o rest.blocks]

Layout(buf) ==
    IF Len(buf) < HeaderSize THEN [ok |-> FALSE, blocks |-> <<>>]
    ELSE IF buf[8] = READ_INPUT_REGISTER
    THEN IF Len(buf) < HeaderSize + MetadataSize THEN [ok |-> FALSE, blocks |-> <<>>]
         ELSE LayoutFrom(buf, HeaderSize + MetadataSize)
    ELSE LayoutFrom(buf, HeaderSize)

\* a message as the specification's data model describes it: every block has
\* end >= start and exactly (end - start + 1) * 2 value bytes, metadata (with
\* a timestamp) exactly when the function is READ_INPUT_REGISTER
ValidBlock(b) == b.end >= b.start /\ Len(b.values) = (b.end - b.start + 1) * 2

ValidMessage(m) ==
    /\ \A i \in 1..Len(m.register_blocks) : ValidBlock(m.register_blocks[i])
    /\ m.multiple_serial_blocks = <<>>
    /\ (m.metadata # NoneVal) <=> (m.function = READ_INPUT_REGISTER)
    /\ m.metadata # NoneVal => m.metadata.timestamp # NoneVal

\* C1 (as claimed): parse_grobro(m.build_grobro()) equals m for every valid
\* message m, also when a block's value bytes are all printable ASCII or NUL.
C1_RoundTrip ==
    (pc = "done" /\ built # Raised /\ ValidMessage(msg)) => result = msg

\* C2 (as claimed): a buffer whose length field disagrees with the number of
\* bytes that follow yields no message. The formula counts the bytes that
\* follow the length field, the first 8 bytes and the whole header: the field
\* disagrees with all three.
C2_LengthMismatchRejected ==
    (/\ pc \in {"done", "got"}
     /\ Len(buffer) >= HeaderSize
     /\ LengthField(buffer) \notin
            {Len(buffer) - 6, Len(buffer) - 8, Len(buffer) - HeaderSize})
    => result = NoneVal

\* C4 (as claimed): every iteration of the register-block loop advances the
\* read offset by at least 4 bytes.
C4_IterationAdvances ==
    [][(pc = "loop" /\ pc' = "loop") => frame'.offset >= frame.offset + 4]_vars

\* C5 (as claimed): on a parsed message, get_data(p) returns the size bytes at
\* (p.register_no - start) * 2 + p.offset of the first block in wire order
\* that covers p.register_no, unchanged, and None when no block covers it.
\* Stated for buffers that consist of whole blocks and for positions whose
\* bytes lie inside the block.
C5_GetDataReadsWire ==
    (pc = "got" /\ Layout(buffer).ok) =>
        LET wire == Layout(buffer).blocks
            i    == FirstCovering(wire, query)
        IN  IF i = 0 THEN data = NoneVal
            ELSE LET at == BlockPos(wire[i], query)
                 IN  at + query.size <= Len(wire[i].values)
                     => data = Bytes(SubSeq(wire[i].values, at + 1, at + query.size))

\* C9 (as claimed): every register block of a message that parse_grobro
\* returns has end >= start and exactly (end - start + 1) * 2 value bytes.
C9_BlocksWellFormed ==
    Parsed => \A i \in 1..Len(result.register_blocks) :
                  ValidBlock(result.register_blocks[i])

\* bytes of the buffer after the read offset
Remaining == Len(buffer) - frame.offset

\* the buffer is a header of a known function (and its metadata), a whole
\* number of blocks, and k trailing bytes
TrailingBytes(k) ==
    /\ Len(buffer) - k >= HeaderSize
    /\ buffer[8] \in GrowattModbusFunction
    /\ Layout(CutTail(buffer, k)).ok

\* C20 (as claimed): after the header (and metadata) parse_grobro consumes one
\* more block whenever at least 4 bytes remain, also when exactly 4 remain,
\* and stops when fewer than 4 remain; a buffer that ends with 1 to 3
\* trailing bytes after whole blocks parses to a message with all of them.
C20_BlockWhileFourRemain ==
    /\ (pc = "done" /\ result # NoneVal) => Remaining < 4
    /\ \A k \in 1..3 :
          (pc = "done" /\ TrailingBytes(k))
              => /\ result # NoneVal
                 /\ Iterations = Len(Layout(CutTail(buffer, k)).blocks)

\* every multiple-serial block's value fits the bytes of its range
SerialFits(m) ==
    \A i \in 1..Len(m.multiple_serial_blocks) :
        LET b == m.multiple_serial_blocks[i]
        IN  Len(b.value) <= (b.end - b.start + 1) * 2

BuiltOk == pc \in {"start", "loop", "done"} /\ built # NoneVal /\ built # Raised

-----------------------------------------------------------------------------
(* grobro/grobro/client.py *)

Some(v) == [some |-> v]

\* get_property: the value of the first user property named `name`
get_property(m, name) ==
    LET hit == {i \in 1..Len(m.properties) : m.properties[i][1] = name}
    IN  IF hit = {} THEN NoneVal
        ELSE Some(m.properties[CHOOSE i \in hit : \A j \in hit : i <= j][2])

\* MQTT_PROP_FORWARD_GROWATT.UserProperty and MQTT_PROP_FORWARD_HA.UserProperty
MQTT_PROP_FORWARD_GROWATT == <<<<"forwarded-for", "growatt">>>>

MQTT_PROP_FORWARD_HA == <<<<"forwarded-for", "ha">>>>

\* forwarded_for and forwarded_for in ["ha", "growatt"]
IsForwarded(m) ==
    LET forwarded_for == get_property(m, "forwarded-for")
    IN  /\ forwarded_for # NoneVal
        /\ forwarded_for.some # ""
        /\ forwarded_for.some \in {"ha", "growatt"}

\* msg.topic.split("/")[-1], "/" being code point 47
LastSegment(topic) ==
    LET slashes == {i \in 1..Len(topic) : topic[i] = 47}
    IN  IF slashes = {} THEN topic
        ELSE SubSeq(topic, (CHOOSE i \in slashes : \A j \in slashes : i >= j) + 1,
                    Len(topic))

StartsWith(str, prefix) ==
    Len(str) >= Len(prefix) /\ SubSeq(str, 1, Len(prefix)) = prefix

\* the ladder of device_id.startswith("QMN"), ("0PVP"), ("0HVR")
known_registers(device_id) ==
    IF StartsWith(device_id, <<81, 77, 78>>) THEN catalog.neo
    ELSE IF StartsWith(device_id, <<48, 80, 86, 80>>) THEN catalog.noah
    ELSE IF StartsWith(device_id, <<48, 72, 86, 82>>) THEN catalog.nexa
    ELSE NoneVal

\* GROWATT_CLOUD_ENABLED, and the test made before forwarding:
\* GROWATT_CLOUD == "true" or device_id in GROWATT_CLOUD_FILTER.
\* env.GROWATT_CLOUD is the variable's text; env.names what
\* set(map(str.strip, GROWATT_CLOUD.split(","))) holds, as device ids.
GROWATT_CLOUD_ENABLED ==
    env.GROWATT_CLOUD \in {"true", "TRUE"} \/ env.GROWATT_CLOUD # ""

GROWATT_CLOUD_FILTER ==
    IF env.GROWATT_CLOUD \in {"true", "TRUE"} THEN {} ELSE env.names

ForwardWanted(device_id) ==
    /\ GROWATT_CLOUD_ENABLED
    /\ env.GROWATT_CLOUD = "true" \/ device_id \in GROWATT_CLOUD_FILTER

\* a comparison that never finds a value above the limit
OverMillion_never(value) ==
    IF value = NoneVal THEN Raised
    ELSE IF value.t = "str" THEN Raised
    ELSE [over |-> FALSE]

\* name == "Ppv" and value > 1000000: Raised when value is None or a str
\* (TypeError), else the comparison.
OverMillion(value) ==
    IF value = NoneVal THEN Raised
    ELSE IF value.t = "str" THEN Raised
    ELSE IF value.t = "float" THEN [over |-> FloatGreater(value, 1000000)]
    ELSE [over |-> value.v > 1000000]

\* the loop over known_registers.input_registers: what becomes of the record
\*   "call"   on_input_register(state) is reached with state.payload
\*   "drop"   the Ppv workaround returned
\*   "error"  an exception left the loop
RECURSIVE InputLoop(_, _, _)
InputLoop(m, regs, payload) ==
    IF regs = <<>> THEN [kind |-> "call", payload |-> payload]
    ELSE
    LET name     == regs[1].name
        register == regs[1]
        data_raw == get_data(m, register.growatt.position)
        value    == parse(register.growatt.data, data_raw)
    IN  IF value = Raised THEN [kind |-> "error", payload |-> payload]
        ELSE IF name = "Ppv" /\ OverMillion(value) = Raised
        THEN [kind |-> "error", payload |-> payload]
        ELSE IF name = "Ppv" /\ OverMillion(value).over
        THEN [kind |-> "drop", payload |-> payload]
        ELSE InputLoop(m, Tail(regs),
                       Append(payload, [name |-> name, value |-> value]))

\* "ON" and "OFF"
ON == StrVal(<<79, 78>>)

OFF == StrVal(<<79, 70, 70>>)

\* value == 1 for an int or a float; a str never equals 1
EqualsOne(value) ==
    \/ value.t = "int" /\ value.v = 1
    \/ value.t = "float" /\ FloatEquals(value, 1)

\* the loop over known_registers.holding_registers
RECURSIVE HoldingLoop(_, _, _)
HoldingLoop(m, regs, payload) ==
    IF regs = <<>> THEN [kind |-> "call", payload |-> payload]
    ELSE
    LET name     == regs[1].name
        register == regs[1]
    IN  IF register.growatt = NoneVal THEN [kind |-> "error", payload |-> payload]
        ELSE
        LET data_raw == get_data(m, register.growatt.position)
            value    == parse(register.growatt.data, data_raw)
        IN  IF value = Raised THEN [kind |-> "error", payload |-> payload]
            ELSE IF value = NoneVal THEN HoldingLoop(m, Tail(regs), payload)
            ELSE HoldingLoop(m, Tail(regs),
                    Append(payload,
                           [name     |-> name,
                            value    |-> IF register.homeassistant.type = "switch"
                                         THEN IF EqualsOne(value) THEN ON ELSE OFF
                                         ELSE value,
                            register |-> register.homeassistant]))

\* grobro.grobro.builder.scramble and append_crc, grobro.grobro.parser.unscramble:
\* a reversible transform and a checksum trailer. A payload is held as the
\* clear bytes it carries and the state of its checksum; unscramble rejects a
\* payload whose checksum is missing or wrong.
scramble(clear) == [scrambled |-> clear, crc |-> "none"]

append_crc(payload) == [payload EXCEPT !.crc = "ok"]

unscramble(payload) ==
    IF payload.crc = "ok" THEN Bytes(payload.scrambled) ELSE Raised

\* what a handler did; the fields are set as the handler proceeds
NoEffects ==
    [outcome   |-> "returned",  \* "returned", "raised" (an exception left the
                                \* handler) or "hung" (parse_grobro did not return)
     skipped   |-> FALSE,       \* returned at the forwarded-for check
     forwards  |-> <<>>,        \* forward_client.publish calls
     decoded   |-> FALSE,       \* parser.unscramble was called
     modbus_message |-> NoneVal,
     input_calls    |-> <<>>,   \* on_input_register calls
     holding_calls  |-> <<>>,   \* on_holding_register_input calls
     logged    |-> FALSE]       \* LOG.exception of the except clause

\* an exception inside the try block: logged, the handler returns
Logged(e) == [e EXCEPT !.logged = TRUE]

\* the number of forwarding connections made so far for a device id
Connected(device_id) ==
    IF device_id \in DOMAIN connections THEN connections[device_id] ELSE 0

\* mqtt.Client(client_id=f"grobro-forward-{device_id}") ... client.connect(...):
\* one more connection for the device id; the new client is its n-th
NewConnection(device_id) ==
    [d \in DOMAIN connections \cup {device_id} |->
        IF d = device_id THEN Connected(d) + 1 ELSE connections[d]]

\* self._forward_clients[device_id] = client
Store(device_id, client) ==
    [d \in DOMAIN forward_clients \cup {device_id} |->
        IF d = device_id THEN client ELSE forward_clients[d]]

\* Client.__connect_to_growatt_server, run without interruption. `fails`: the
\* broker refuses the connection (client.connect raises).
connect_to_growatt_server(device_id, fails) ==
    IF device_id \in DOMAIN forward_clients
    THEN [raised |-> FALSE, client |-> forward_clients[device_id],
          forward_clients |-> forward_clients, connections |-> connections]
    ELSE IF fails
    THEN [raised |-> TRUE, client |-> 0,
          forward_clients |-> forward_clients, connections |-> connections]
    ELSE [raised |-> FALSE, client |-> Connected(device_id) + 1,
          forward_clients |-> Store(device_id, Connected(device_id) + 1),
          connections |-> NewConnection(device_id)]

\* the handler from `if modbus_message:` on; e holds what happened before
Dispatch(e, device_id, modbus_message, unscrambled, fault) ==
    IF modbus_message = NoneVal
    THEN \* struct.unpack_from(">H", unscrambled, 4)
         IF Len(unscrambled) < 6 THEN Logged(e) ELSE e
    ELSE
    LET registers == known_registers(device_id)
    IN  IF registers = NoneVal THEN e
        ELSE IF modbus_message.function = READ_SINGLE_REGISTER
        THEN LET loop == HoldingLoop(modbus_message, registers.holding_registers, <<>>)
             IN  IF loop.kind = "error" THEN Logged(e)
                 ELSE LET called == [e EXCEPT !.holding_calls =
                                        <<[device_id |-> device_id,
                                           payload |-> loop.payload]>>]
                      IN  IF fault = "callback" THEN Logged(called) ELSE called
        ELSE IF modbus_message.function = READ_INPUT_REGISTER
        THEN LET loop == InputLoop(modbus_message, registers.input_registers, <<>>)
             IN  IF loop.kind = "error" THEN Logged(e)
                 ELSE IF loop.kind = "drop" THEN e
                 ELSE LET called == [e EXCEPT !.input_calls =
                                        <<[device_id |-> device_id,
                                           payload |-> loop.payload]>>]
                      IN  IF fault = "callback" THEN Logged(called) ELSE called
        ELSE e

\* the handler from parser.unscramble on
Decode(e, device_id, m, fault) ==
    LET unscrambled == unscramble(m.payload)
        d == [e EXCEPT !.decoded = TRUE]
    IN  IF unscrambled = Raised THEN Logged(d)
        ELSE LET modbus_message == parse_grobro(unscrambled.bytes)
             IN  IF modbus_message = Diverges THEN [d EXCEPT !.outcome = "hung"]
                 ELSE Dispatch([d EXCEPT !.modbus_message = modbus_message],
                               device_id, modbus_message, unscrambled.bytes, fault)

\* Client.__on_message. `fault` names the collaborator that raises during
\* this call, if any: "dump" (dump_message_binary), "connect" (the forwarding
\* broker), "forward_publish", "callback" (the telemetry callback).
\* The result holds the effects and the connection cache afterwards.
on_message(m, fault) ==
    LET device_id == LastSegment(m.topic)
        same == [forward_clients |-> forward_clients, connections |-> connections]
    IN  IF IsForwarded(m)
        THEN [effects |-> [NoEffects EXCEPT !.skipped = TRUE], cache |-> same]
        ELSE IF env.DUMP_MESSAGES /\ fault = "dump"
        THEN [effects |-> [NoEffects EXCEPT !.outcome = "raised"], cache |-> same]
        ELSE IF ForwardWanted(device_id)
        THEN LET c == connect_to_growatt_server(device_id, fault = "connect")
                 cache == [forward_clients |-> c.forward_clients,
                           connections |-> c.connections]
             IN  IF c.raised \/ fault = "forward_publish"
                 THEN [effects |-> Logged(NoEffects), cache |-> cache]
                 ELSE [effects |->
                          Decode([NoEffects EXCEPT !.forwards =
                                     <<[client_id |-> device_id, client |-> c.client,
                                        topic |-> m.topic,
                                        payload |-> m.payload]>>],
                                 device_id, m, fault),
                       cache |-> cache]
        ELSE [effects |-> Decode(NoEffects, device_id, m, fault), cache |-> same]

\* GrowattModbusFunctionSingle.build_grobro (modbus_function.py):
\* struct.pack(">HHHBB30sHH", 1, 7, 36, 1, function, device_id, register, value)
SingleLength == 36

SingleBuild(cmd) ==
    IF cmd.register \notin 0..65535 \/ cmd.value \notin 0..65535 THEN Raised
    ELSE Bytes(PackHeader(1, 7, SingleLength, 1, cmd.function, cmd.device_id)
               \o PackH(cmd.register) \o PackH(cmd.value))

\* f"s/33/{cmd.device_id}"
CommandTopic(device_id) == <<115, 47, 51, 51, 47>> \o device_id

\* a publish that leaves the properties out
send_command_untagged(cmd) ==
    [topic      |-> CommandTopic(cmd.device_id),
     payload    |-> append_crc(scramble(SingleBuild(cmd).bytes)),
     properties |-> <<>>]

\* Client.send_command: the message handed to self._client.publish
send_command(cmd) ==
    [topic      |-> CommandTopic(cmd.device_id),
     payload    |-> append_crc(scramble(SingleBuild(cmd).bytes)),
     properties |-> MQTT_PROP_FORWARD_HA]

-----------------------------------------------------------------------------
(* Inputs of the client: environment, register catalogs, inbound messages *)

\* "false" as a device id (what GROWATT_CLOUD_FILTER holds by default)
FalseId == <<102, 97, 108, 115, 101>>

Envs ==
    {[GROWATT_CLOUD |-> "true", names |-> {}, DUMP_MESSAGES |-> TRUE],
     [GROWATT_CLOUD |-> "false", names |-> {FalseId}, DUMP_MESSAGES |-> FALSE],
     [GROWATT_CLOUD |-> "", names |-> {}, DUMP_MESSAGES |-> FALSE],
     [GROWATT_CLOUD |-> "QMN1", names |-> {QMN1}, DUMP_MESSAGES |-> FALSE]}

\* catalog entries as the JSON tables give them: name, GrowattInputRegister,
\* and (holding registers) the consumer-side type
FloatType(multiplier, delta) ==
    [data_type |-> "FLOAT", enum_options |-> NoneVal,
     float_options |-> [multiplier |-> multiplier, delta |-> delta]]

EnumType(enum_type, values) ==
    [data_type |-> "ENUM", float_options |-> NoneVal,
     enum_options |-> [enum_type |-> enum_type, values |-> values]]

InputRegister(name, position, data_type) ==
    [name |-> name, growatt |-> [position |-> position, data |-> data_type]]

HoldingRegister(name, growatt, type) ==
    [name |-> name, growatt |-> growatt, homeassistant |-> [type |-> type]]

\* Ppv as a 4-byte int, and as a 4-byte float with multiplier 0.1
PpvInt == InputRegister("Ppv", Position(0, 0, 4), IntType)

PpvTenth == InputRegister("Ppv", Position(0, 0, 4), FloatType(100, 0))

Vpv1 == InputRegister("Vpv1", Position(3, 0, 2), FloatType(100, 0))

Status ==
    InputRegister("Status", Position(1, 0, 2),
                  EnumType("INT_MAP", {[key |-> 3, name |-> "Normal"],
                                       [key |-> 16, name |-> "Fault"]}))

InputCatalogs ==
    {<<PpvInt, Vpv1>>, <<Vpv1, PpvInt, Status>>, <<Status, Vpv1, PpvTenth>>,
     <<Vpv1, Status>>}

HoldingCatalog ==
    <<HoldingRegister("enable", [position |-> Position(0, 0, 2), data |-> IntType],
                      "switch"),
      HoldingRegister("power_limit", [position |-> Position(3, 0, 2), data |-> IntType],
                      "number")>>

\* a table with a holding register that has no device side
\* (GroBroHoldingRegister.growatt is Optional and defaults to None)
ConsumerOnlyCatalog ==
    HoldingCatalog \o <<HoldingRegister("restart", NoneVal, "button")>>

\* the three tables after the module is loaded: KNOWN_NOAH_REGISTERS has the
\* firmware entries added to its input registers
Catalogs ==
    {[neo   |-> [input_registers |-> inp, holding_registers |-> HoldingCatalog],
      noah  |-> [input_registers |-> inp \o NoahFirmwareRegisters,
                 holding_registers |-> HoldingCatalog],
      nexa  |-> [input_registers |-> inp, holding_registers |-> HoldingCatalog]] :
        inp \in InputCatalogs}
    \cup {[neo   |-> [input_registers |-> <<PpvInt, Vpv1>>,
                      holding_registers |-> HoldingCatalog],
            noah  |-> [input_registers |-> <<PpvInt, Vpv1>> \o NoahFirmwareRegisters,
                       holding_registers |-> ConsumerOnlyCatalog],
            nexa  |-> [input_registers |-> <<PpvInt, Vpv1>>,
                       holding_registers |-> HoldingCatalog]]}

\* "c/33/" + device id
InboundTopic(device_id) == <<99, 47, 51, 51, 47>> \o device_id

\* register blocks of inbound telemetry: the Ppv registers 0..1, register 3,
\* registers 0..3 and register 0 alone, each with several value patterns
HandlerBlocks ==
    {WireBlock(0, 1, k) : k \in Kinds}
    \cup {WireBlock(3, 3, k) : k \in {"low", "high", "ascii"}}
    \cup {WireBlock(0, 3, k) : k \in {"low", "high"}}
    \cup {WireBlock(0, 0, "low"), WireBlock(3, 0, "nul")}

HandlerTails ==
    {<<>>} \cup HandlerBlocks
    \cup {a \o b : a \in {WireBlock(0, 1, k) : k \in {"low", "high", "nul"}},
                   b \in HandlerBlocks}

HandlerBuffers ==
    {WireBuffer(1, "after6", READ_INPUT_REGISTER, QMN1, WireMetadata(TRUE) \o t) :
        t \in HandlerTails}
    \cup {WireBuffer(1, "after6", READ_SINGLE_REGISTER, QMN1, t) : t \in HandlerTails}
    \cup {WireBuffer(1, "after6", fn, QMN1, WireBlock(0, 1, "low")) :
            fn \in {READ_HOLDING_REGISTER, 7}}
    \cup {<<0, 1, 0, 7>>}

\* a block header with start = 3, end = 0, followed by a block 0..1
ReversedRangeBuffer ==
    WireBuffer(1, "after6", READ_HOLDING_REGISTER, QMN1,
               WireBlock(3, 0, "nul") \o WireBlock(0, 1, "low"))

\* a ReadSingle response: register 0 holds 1
SwitchOnBuffer ==
    WireBuffer(1, "after6", READ_SINGLE_REGISTER, PVP2, <<0, 0, 0, 0, 0, 1>>)

Inbound(topic, payload, properties) ==
    [topic |-> topic, payload |-> payload, properties |-> properties]

SamplePayload ==
    append_crc(scramble(WireBuffer(1, "after6", READ_INPUT_REGISTER, QMN1,
                                   WireMetadata(TRUE) \o WireBlock(0, 3, "low"))))

PropertyLists ==
    {<<>>, MQTT_PROP_FORWARD_HA, MQTT_PROP_FORWARD_GROWATT,
     <<<<"forwarded-for", "other">>>>, <<<<"forwarded-for", "">>>>,
     <<<<"file", "a.bin">>, <<"forwarded-for", "growatt">>>>}

\* messages that vary the properties, messages of the other device families
\* and of an unknown one, and messages that vary the payload
InboundMessages ==
    {Inbound(InboundTopic(QMN1), pl, pr) :
        pl \in {SamplePayload, scramble(<<1, 2, 3>>)}, pr \in PropertyLists}
    \cup {Inbound(InboundTopic(d), SamplePayload, pr) :
            d \in {PVP2, HVR3, XYZ9}, pr \in {<<>>, MQTT_PROP_FORWARD_GROWATT}}
    \cup {Inbound(InboundTopic(QMN1), append_crc(scramble(b)), <<>>) :
            b \in HandlerBuffers}
    \cup {Inbound(InboundTopic(d), append_crc(scramble(ReversedRangeBuffer)), <<>>) :
            d \in {QMN1, XYZ9}}
    \cup {Inbound(InboundTopic(PVP2), append_crc(scramble(SwitchOnBuffer)), <<>>)}

Faults == {"none", "dump", "connect", "forward_publish", "callback"}

FaultMessages ==
    {Inbound(InboundTopic(QMN1), pl, <<>>) :
        pl \in {SamplePayload,
                append_crc(scramble(WireBuffer(1, "after6", READ_SINGLE_REGISTER,
                                               QMN1, WireBlock(0, 1, "low"))))}}

\* GrowattModbusFunctionSingle commands handed to send_command
Commands ==
    {[device_id |-> QMN1, function |-> READ_SINGLE_REGISTER, register |-> 3, value |-> 3],
     [device_id |-> PVP2, function |-> PRESET_SINGLE_REGISTER, register |-> 0, value |-> 1]}

-----------------------------------------------------------------------------
(* One handler at a time: inbound messages, commands, and commands that the
   broker hands back to the gateway's own handler *)

MaxOutbox == 1

CodecIdle ==
    /\ buffer = <<>>
    /\ pc = "idle"
    /\ frame = NoneVal
    /\ result = NoneVal
    /\ msg = NoneVal
    /\ built = NoneVal
    /\ query = NoneVal
    /\ data = NoneVal

\* the network loop takes the next message off the socket
Take(m, fault, origin) ==
    /\ inflight = NoneVal
    /\ handled = NoneVal
    /\ inflight' = [msg |-> m, fault |-> fault, origin |-> origin]
    /\ handled' = NoneVal

\* a message on c/#
Receive ==
    /\ \E m \in InboundMessages : Take(m, "none", "broker")
    /\ UNCHANGED <<env, catalog, forward_clients, connections, outbox, threads, sender>>
    /\ UNCHANGED codecVars

\* a message on c/# during whose handling a collaborator raises
ReceiveFault ==
    /\ \E m \in FaultMessages, fault \in Faults \ {"none"} : Take(m, fault, "broker")
    /\ UNCHANGED <<env, catalog, forward_clients, connections, outbox, threads, sender>>
    /\ UNCHANGED codecVars

\* a published command comes back to the gateway's own handler
ReceiveOwn ==
    /\ \E i \in 1..Len(outbox) : Take(outbox[i], "none", "self")
    /\ UNCHANGED <<env, catalog, forward_clients, connections, outbox, threads, sender>>
    /\ UNCHANGED codecVars

\* Client.__on_message for the message taken
OnMessage ==
    /\ inflight # NoneVal
    /\ LET r == on_message(inflight.msg, inflight.fault)
       IN  /\ handled' = [msg |-> inflight.msg, fault |-> inflight.fault,
                          origin |-> inflight.origin, effects |-> r.effects]
           /\ forward_clients' = r.cache.forward_clients
           /\ connections' = r.cache.connections
    /\ inflight' = NoneVal
    /\ UNCHANGED <<env, catalog, outbox, threads, sender>>
    /\ UNCHANGED codecVars

\* the handler has returned: the network loop goes on to the next message.
\* It does not after an exception left the handler or while parse_grobro runs.
HandlerReturns ==
    /\ handled # NoneVal
    /\ handled.effects.outcome = "returned"
    /\ handled' = NoneVal
    /\ UNCHANGED <<env, catalog, forward_clients, connections, inflight, outbox, threads, sender>>
    /\ UNCHANGED codecVars

\* Client.send_command
SendCommand ==
    /\ Len(outbox) < MaxOutbox
    /\ \E cmd \in Commands : outbox' = Append(outbox, send_command(cmd))
    /\ UNCHANGED <<env, catalog, forward_clients, connections, inflight, handled, threads, sender>>
    /\ UNCHANGED codecVars

InitHandler ==
    /\ env \in Envs
    /\ catalog \in Catalogs
    /\ forward_clients = <<>>
    /\ connections = <<>>
    /\ inflight = NoneVal
    /\ handled = NoneVal
    /\ outbox = <<>>
    /\ threads = <<>>
    /\ sender = NoneVal
    /\ CodecIdle

NextHandler ==
    Receive \/ ReceiveFault \/ ReceiveOwn \/ OnMessage \/ HandlerReturns \/ SendCommand

SpecHandler == InitHandler /\ [][NextHandler]_vars

-----------------------------------------------------------------------------
(* Properties of the handler *)

\* a handler has run to its end (or to where it stopped) on handled.msg
Ran == handled # NoneVal

\* the handler performed no cloud forward, no decode and no telemetry callback
NotIngested(e) ==
    /\ e.forwards = <<>>
    /\ ~e.decoded
    /\ e.modbus_message = NoneVal
    /\ e.input_calls = <<>>
    /\ e.holding_calls = <<>>

\* C6: a message whose forwarded-for property is "ha" or "growatt" is never
\* ingested (no cloud forward, no decode, no telemetry callback); every message
\* send_command publishes carries forwarded-for = "ha"; so a command that comes
\* back to the gateway's own handler is never processed.
C6_ForwardedNeverIngested ==
    /\ Ran /\ get_property(handled.msg, "forwarded-for") \in {Some("ha"), Some("growatt")}
          => NotIngested(handled.effects)
    /\ \A i \in 1..Len(outbox) :
          get_property(outbox[i], "forwarded-for") = Some("ha")
    /\ Ran /\ handled.origin = "self" => NotIngested(handled.effects)

\* a command came back to the handler of a gateway that forwards every
\* device to the cloud and dumps messages, after telemetry was ingested
C6_Witness ==
    /\ Ran
    /\ handled.origin = "self"
    /\ handled.effects.skipped
    /\ env.GROWATT_CLOUD = "true"
    /\ DOMAIN forward_clients # {}

\* the function code a payload carries: the byte after unknown, constant 7,
\* length and constant 1 of the descrambled header
WireFunction(m) ==
    IF unscramble(m.payload) = Raised THEN NoneVal
    ELSE IF Len(unscramble(m.payload).bytes) < HeaderSize THEN NoneVal
    ELSE Some(unscramble(m.payload).bytes[8])

UnknownFunction(m) ==
    WireFunction(m) # NoneVal /\ WireFunction(m).some \notin GrowattModbusFunction

UnknownFamily(m) ==
    LET device_id == LastSegment(m.topic)
    IN  /\ ~StartsWith(device_id, <<81, 77, 78>>)
        /\ ~StartsWith(device_id, <<48, 80, 86, 80>>)
        /\ ~StartsWith(device_id, <<48, 72, 86, 82>>)

\* C11: a message with an unknown function code, or from a device id with
\* none of the known prefixes, is dropped: parse_grobro returns no message
\* for the unknown function code without raising, neither telemetry callback
\* is invoked, and the handler returns normally. (No collaborator fails.)
C11_UnknownVariantDropped ==
    /\ ( /\ Ran
         /\ handled.fault = "none"
         /\ ~handled.effects.skipped
         /\ UnknownFunction(handled.msg) \/ UnknownFamily(handled.msg) )
       => /\ handled.effects.outcome = "returned"
          /\ handled.effects.input_calls = <<>>
          /\ handled.effects.holding_calls = <<>>
    /\ ( /\ Ran
         /\ handled.effects.decoded
         /\ UnknownFunction(handled.msg) )
       => /\ handled.effects.outcome = "returned"
          /\ handled.effects.modbus_message = NoneVal

\* C12: no failure while handling a message escapes the handler: whatever the
\* topic and the payload, and whichever step fails (dump, forward connect or
\* publish, descramble, parse, decode, callback), __on_message returns.
C12_NoFailureEscapes ==
    Ran => handled.effects.outcome = "returned"

\* the message handled is a ReadInput message of a known device family
HandledInput ==
    /\ Ran
    /\ handled.effects.modbus_message # NoneVal
    /\ handled.effects.modbus_message.function = READ_INPUT_REGISTER
    /\ known_registers(LastSegment(handled.msg.topic)) # NoneVal

InputRegisters == known_registers(LastSegment(handled.msg.topic)).input_registers

\* register.growatt.data.parse(modbus_message.get_data(register.growatt.position))
Decoded(i) ==
    parse(InputRegisters[i].growatt.data,
          get_data(handled.effects.modbus_message, InputRegisters[i].growatt.position))

Absent(i) == Decoded(i) = NoneVal

\* some catalog register named Ppv decodes to a number above 1,000,000
PpvAboveLimit ==
    \E i \in 1..Len(InputRegisters) :
        /\ InputRegisters[i].name = "Ppv"
        /\ Decoded(i) \notin {NoneVal, Raised}
        /\ \/ Decoded(i).t = "int" /\ Decoded(i).v > 1000000
           \/ Decoded(i).t = "float" /\ FloatGreater(Decoded(i), 1000000)

\* the names of a published record, and the entries whose value is null
Names(payload) == {payload[i].name : i \in 1..Len(payload)}

Nulls(payload) == {i \in 1..Len(payload) : payload[i].value = NoneVal}

\* the message handled is a ReadSingle message of a known device family
HandledSingle ==
    /\ Ran
    /\ handled.effects.modbus_message # NoneVal
    /\ handled.effects.modbus_message.function = READ_SINGLE_REGISTER
    /\ known_registers(LastSegment(handled.msg.topic)) # NoneVal

\* the telemetry callbacks a handler made
Callbacks(e) == Len(e.input_calls) + Len(e.holding_calls)

\* C13: a handler makes at most one telemetry callback per message, only
\* after descrambling and parsing succeeded and the device family was
\* resolved, and exactly one when the message is a ReadInput or ReadSingle
\* message of a known family that passes the data-quality rule. (No
\* collaborator fails.)
C13_OneCallbackPerMessage ==
    /\ Ran => Callbacks(handled.effects) <= 1
    /\ Ran /\ Callbacks(handled.effects) > 0
          => /\ handled.effects.decoded
             /\ handled.effects.modbus_message # NoneVal
             /\ ~UnknownFamily(handled.msg)
    /\ ( /\ HandledInput \/ HandledSingle
         /\ handled.fault = "none"
         /\ HandledInput => ~PpvAboveLimit )
       => Callbacks(handled.effects) = 1

HoldingRegisters == known_registers(LastSegment(handled.msg.topic)).holding_registers

\* the decoded value of a holding register: absent when it has no device side
DecodedHolding(register) ==
    IF register.growatt = NoneVal THEN NoneVal
    ELSE parse(register.growatt.data,
               get_data(handled.effects.modbus_message, register.growatt.position))

\* the entries C14 describes for a list of holding registers; a switch whose
\* value is neither 1 nor 0 is left to the code (OFF)
RECURSIVE ExpectedEntries(_)
ExpectedEntries(regs) ==
    IF regs = <<>> THEN <<>>
    ELSE LET value == DecodedHolding(regs[1])
         IN  IF value = NoneVal THEN ExpectedEntries(Tail(regs))
             ELSE <<[name     |-> regs[1].name,
                     value    |-> IF regs[1].homeassistant.type = "switch"
                                  THEN IF value = IntVal(1) THEN ON ELSE OFF
                                  ELSE value,
                     register |-> regs[1].homeassistant]>>
                  \o ExpectedEntries(Tail(regs))

\* C14: for a ReadSingle message of a known family, on_holding_register_input
\* is invoked exactly once, with one entry per catalog holding register whose
\* decoded value is not absent, in catalog order; a "switch" entry carries ON
\* for 1 and OFF for 0, every other entry the decoded value. (No collaborator
\* fails and no register's bytes fail to decode.)
C14_HoldingRecord ==
    ( /\ HandledSingle
      /\ handled.fault = "none"
      /\ \A i \in 1..Len(HoldingRegisters) : DecodedHolding(HoldingRegisters[i]) # Raised )
    => /\ Len(handled.effects.holding_calls) = 1
       /\ handled.effects.holding_calls[1].payload = ExpectedEntries(HoldingRegisters)

\* C7: for a ReadInput message of a known family in which some catalog input
\* register is not covered or decodes to absent, on_input_register is still
\* invoked exactly once, and the record holds exactly the names whose decoded
\* value is not absent, none of them mapped to a null value. (No collaborator
\* fails, no register's bytes fail to decode, and Ppv is not above the limit.)
C7_AbsentRegistersOmitted ==
    ( /\ HandledInput
      /\ handled.fault = "none"
      /\ \A i \in 1..Len(InputRegisters) : Decoded(i) # Raised
      /\ ~PpvAboveLimit
      /\ \E i \in 1..Len(InputRegisters) : Absent(i) )
    => /\ Len(handled.effects.input_calls) = 1
       /\ LET payload == handled.effects.input_calls[1].payload
          IN  /\ Nulls(payload) = {}
              /\ Names(payload) =
                    {InputRegisters[i].name : i \in {j \in 1..Len(InputRegisters) : ~Absent(j)}}

\* C8: for a ReadInput message of a known family whose catalog register Ppv
\* decodes to a value above 1,000,000, on_input_register is never invoked,
\* whatever the other registers hold and wherever Ppv stands in the catalog.
C8_PpvAboveLimitDropped ==
    HandledInput /\ PpvAboveLimit => handled.effects.input_calls = <<>>

\* the record was dropped by the Ppv rule itself: nothing raised, and Ppv
\* stands after a register whose value had already been decoded
C8_Witness ==
    /\ HandledInput
    /\ PpvAboveLimit
    /\ handled.fault = "none"
    /\ handled.effects.outcome = "returned"
    /\ ~handled.effects.logged
    /\ handled.effects.input_calls = <<>>
    /\ InputRegisters[1].name # "Ppv"
    /\ ~Absent(1)

-----------------------------------------------------------------------------
(* Handlers running concurrently: the path of __on_message through
   __connect_to_growatt_server, one step per read or write of the shared
   Client._forward_clients *)

NumThreads == 2

MaxMessages == 3

Threads == 1..NumThreads

ForwardedDevices == {QMN1, PVP2}

\* a handler's position, its device_id and client, and the number of
\* messages its thread has taken so far
Idle(n) == [pc |-> "idle", device_id |-> NoneVal, client |-> 0, entered |-> n]

\* messages whose handlers have been entered so far
RECURSIVE EnteredUpTo(_)
EnteredUpTo(t) == IF t = 0 THEN 0 ELSE threads[t].entered + EnteredUpTo(t - 1)

Entered == EnteredUpTo(NumThreads)

At(t, where) == threads[t].pc = where

Goto(t, where) == threads' = [threads EXCEPT ![t].pc = where]

\* __on_message is entered for a message of a device that is to be forwarded
EnterHandler(t) ==
    /\ At(t, "idle")
    /\ Entered < MaxMessages
    /\ \E d \in ForwardedDevices :
          /\ ForwardWanted(d)
          /\ threads' = [threads EXCEPT ![t] = [pc |-> "lookup", device_id |-> d,
                                                client |-> 0,
                                                entered |-> threads[t].entered + 1]]
    /\ UNCHANGED <<env, catalog, forward_clients, connections, inflight, handled, outbox, sender>>
    /\ UNCHANGED codecVars

\* if device_id in self._forward_clients: return self._forward_clients[device_id]
Lookup(t) ==
    /\ At(t, "lookup")
    /\ IF threads[t].device_id \in DOMAIN forward_clients
       THEN threads' = [threads EXCEPT ![t].pc = "publish",
                                       ![t].client = forward_clients[threads[t].device_id]]
       ELSE Goto(t, "create")
    /\ UNCHANGED <<env, catalog, forward_clients, connections, inflight, handled, outbox, sender>>
    /\ UNCHANGED codecVars

\* client = mqtt.Client(...); ...; client.connect(...); client.loop_start()
Create(t) ==
    /\ At(t, "create")
    /\ connections' = NewConnection(threads[t].device_id)
    /\ threads' = [threads EXCEPT ![t].pc = "store",
                                  ![t].client = Connected(threads[t].device_id) + 1]
    /\ UNCHANGED <<env, catalog, forward_clients, inflight, handled, outbox, sender>>
    /\ UNCHANGED codecVars

\* client.connect raises: the except clause of the handler logs it
CreateFails(t) ==
    /\ At(t, "create")
    /\ threads' = [threads EXCEPT ![t] = Idle(threads[t].entered)]
    /\ UNCHANGED <<env, catalog, forward_clients, connections, inflight, handled, outbox, sender>>
    /\ UNCHANGED codecVars

\* self._forward_clients[device_id] = client; return client
StoreClient(t) ==
    /\ At(t, "store")
    /\ forward_clients' = Store(threads[t].device_id, threads[t].client)
    /\ Goto(t, "publish")
    /\ UNCHANGED <<env, catalog, connections, inflight, handled, outbox, sender>>
    /\ UNCHANGED codecVars

\* forward_client.publish(...) and the rest of the handler
ForwardPublish(t) ==
    /\ At(t, "publish")
    /\ threads' = [threads EXCEPT ![t] = Idle(threads[t].entered)]
    /\ UNCHANGED <<env, catalog, forward_clients, connections, inflight, handled, outbox, sender>>
    /\ UNCHANGED codecVars

InitConnect ==
    /\ env \in Envs
    /\ catalog \in Catalogs
    /\ forward_clients = <<>>
    /\ connections = <<>>
    /\ inflight = NoneVal
    /\ handled = NoneVal
    /\ outbox = <<>>
    /\ threads = [t \in Threads |-> Idle(0)]
    /\ sender = NoneVal
    /\ CodecIdle

NextConnect ==
    \E t \in Threads :
        \/ EnterHandler(t)
        \/ Lookup(t)
        \/ Create(t)
        \/ CreateFails(t)
        \/ StoreClient(t)
        \/ ForwardPublish(t)

SpecConnect == InitConnect /\ [][NextConnect]_vars

\* C3: under any interleaving of concurrently running handlers, at most one
\* forwarding connection is ever created for a given device id.
C3_OneConnectionPerDevice ==
    \A d \in DOMAIN connections : connections[d] <= 1

-----------------------------------------------------------------------------
(* Client.send_command, one step per statement *)

MaxCalls == 2

\* GrowattModbusFunctionSingle values: register and value are plain ints
CommandInputs ==
    {[device_id |-> d, function |-> fn, register |-> r, value |-> v] :
        d \in {QMN1, PVP2}, fn \in {READ_SINGLE_REGISTER, PRESET_SINGLE_REGISTER},
        r \in {0, 3}, v \in {0, 1, 65535, 65536}}

\* send_command is not running; `calls` counts the calls made
NotSending(calls) ==
    [pc |-> "idle", cmd |-> NoneVal, scrambled |-> NoneVal, final_payload |-> NoneVal,
     published |-> <<>>, warned |-> FALSE, calls |-> calls]

\* send_command(cmd) is called
CallSendCommand ==
    /\ sender.pc = "idle"
    /\ sender.calls < MaxCalls
    /\ \E cmd \in CommandInputs :
          sender' = [NotSending(sender.calls + 1) EXCEPT !.pc = "build", !.cmd = cmd]
    /\ UNCHANGED <<env, catalog, forward_clients, connections, inflight, handled, outbox,
                   threads>>
    /\ UNCHANGED codecVars

\* scrambled = scramble(cmd.build_grobro()); struct.error leaves send_command
BuildAndScramble ==
    /\ sender.pc = "build"
    /\ IF SingleBuild(sender.cmd) = Raised
       THEN sender' = [sender EXCEPT !.pc = "raised"]
       ELSE sender' = [sender EXCEPT !.pc = "crc",
                                     !.scrambled = scramble(SingleBuild(sender.cmd).bytes)]
    /\ UNCHANGED <<env, catalog, forward_clients, connections, inflight, handled, outbox,
                   threads>>
    /\ UNCHANGED codecVars

\* final_payload = append_crc(scrambled)
AppendCrc ==
    /\ sender.pc = "crc"
    /\ sender' = [sender EXCEPT !.pc = "publish",
                                !.final_payload = append_crc(sender.scrambled)]
    /\ UNCHANGED <<env, catalog, forward_clients, connections, inflight, handled, outbox,
                   threads>>
    /\ UNCHANGED codecVars

\* a publish that is repeated when the first attempt fails
Publish_retry ==
    /\ sender.pc = "publish"
    /\ \E status \in {0, 1} :
          LET m == [topic      |-> CommandTopic(sender.cmd.device_id),
                    payload    |-> sender.final_payload,
                    properties |-> MQTT_PROP_FORWARD_HA]
          IN  sender' = [sender EXCEPT
                            !.pc = "done",
                            !.published = IF status # 0 THEN <<m, m>> ELSE <<m>>,
                            !.warned = (status # 0)]
    /\ UNCHANGED <<env, catalog, forward_clients, connections, inflight, handled, outbox,
                   threads>>
    /\ UNCHANGED codecVars

\* result = self._client.publish(topic, final_payload, properties=...);
\* if result[0] != 0: LOG.warning(...)
Publish ==
    /\ sender.pc = "publish"
    /\ \E status \in {0, 1} :
          sender' = [sender EXCEPT
                        !.pc = "done",
                        !.published = Append(@, [topic      |-> CommandTopic(sender.cmd.device_id),
                                                 payload    |-> sender.final_payload,
                                                 properties |-> MQTT_PROP_FORWARD_HA]),
                        !.warned = (status # 0)]
    /\ UNCHANGED <<env, catalog, forward_clients, connections, inflight, handled, outbox,
                   threads>>
    /\ UNCHANGED codecVars

\* send_command has returned or raised; the caller may call again
SendReturns ==
    /\ sender.pc \in {"done", "raised"}
    /\ sender' = NotSending(sender.calls)
    /\ UNCHANGED <<env, catalog, forward_clients, connections, inflight, handled, outbox,
                   threads>>
    /\ UNCHANGED codecVars

InitCommand ==
    /\ env \in Envs
    /\ catalog \in Catalogs
    /\ forward_clients = <<>>
    /\ connections = <<>>
    /\ inflight = NoneVal
    /\ handled = NoneVal
    /\ outbox = <<>>
    /\ threads = <<>>
    /\ sender = NotSending(0)
    /\ CodecIdle

NextCommand ==
    CallSendCommand \/ BuildAndScramble \/ AppendCrc \/ Publish \/ SendReturns

SpecCommand == InitCommand /\ [][NextCommand]_vars

\* the command fits the frame: register and value are unsigned 16-bit
Encodable(cmd) == cmd.register \in 0..65535 /\ cmd.value \in 0..65535

\* the message C15 describes for a command
ExpectedPublish(cmd) ==
    [topic      |-> <<115, 47, 51, 51, 47>> \o cmd.device_id,
     payload    |-> append_crc(scramble(SingleBuild(cmd).bytes)),
     properties |-> <<<<"forwarded-for", "ha">>>>]

\* C15 as stated: every call of send_command ends having published exactly
\* one message, on s/33/<device id>, with payload
\* append_crc(scramble(cmd.build_grobro())).
C15_EveryCallPublishesOnce ==
    sender.pc \in {"done", "raised"}
        => /\ Len(sender.published) = 1
           /\ sender.published[1] = ExpectedPublish(sender.cmd)

\* C15 amended: a call for a command whose register and value fit 16 bits
\* builds, scrambles, appends the checksum and publishes in that order and
\* once: nothing is published before the checksum is appended, and the call
\* ends with exactly one message published, failed or not; a call for any
\* other command raises from build_grobro and publishes nothing.
C15_SendCommandOrder ==
    /\ sender.pc \in {"build", "crc", "publish", "raised"} => sender.published = <<>>
    /\ sender.pc = "crc" => sender.scrambled = scramble(SingleBuild(sender.cmd).bytes)
    /\ sender.pc = "publish" =>
          sender.final_payload = append_crc(scramble(SingleBuild(sender.cmd).bytes))
    /\ sender.pc = "done" => /\ Encodable(sender.cmd)
                             /\ sender.published = <<ExpectedPublish(sender.cmd)>>
    /\ sender.pc = "raised" => ~Encodable(sender.cmd)

\* a second call whose publish failed: logged, one message, no retry
C15_Witness ==
    /\ sender.pc = "done"
    /\ sender.calls = 2
    /\ sender.warned
    /\ Len(sender.published) = 1

-----------------------------------------------------------------------------
(* grobro/model/modbus_function.py: the command frames *)

\* struct.pack(">HHHBB30sHH", 1, 7, length, 1, function, device_id, a, b)
PackCommand(length, function, device_id, a, b) ==
    IF length \notin 0..65535 \/ a \notin 0..65535 \/ b \notin 0..65535 THEN Raised
    ELSE Bytes(PackHeader(1, 7, length, 1, function, device_id) \o PackH(a) \o PackH(b))

\* GrowattModbusFunctionMultiple.build_grobro
MultipleBuild(cmd) ==
    LET header == PackCommand(SingleLength + Len(cmd.values), cmd.function,
                              cmd.device_id, cmd.start, cmd.end)
    IN  IF header = Raised THEN Raised ELSE Bytes(header.bytes \o cmd.values)

\* GrowattModbusFunctionMultipleSerial.build_grobro
MultipleSerialBuild(cmd) ==
    LET values_bytes == LJust(cmd.value, (cmd.end - cmd.start + 1) * 2)
        header == PackCommand(SingleLength + Len(values_bytes), cmd.function,
                              cmd.device_id, cmd.start, cmd.end)
    IN  IF header = Raised THEN Raised ELSE Bytes(header.bytes \o values_bytes)

\* build_grobro of a command of any of the three classes
CommandBuild(cmd) ==
    IF cmd.class = "Single" THEN SingleBuild(cmd)
    ELSE IF cmd.class = "Multiple" THEN MultipleBuild(cmd)
    ELSE MultipleSerialBuild(cmd)

MaxValueBytes == 4

\* byte strings of a length: binary, and ASCII text
ValueBytes(n) == {Fill("low", n), Fill("ascii", n)}

CommandRanges == {<<0, 0>>, <<0, 1>>, <<3, 4>>, <<65535, 65536>>}

FrameInputs ==
    {[class |-> "Single", device_id |-> c.device_id, function |-> c.function,
      register |-> c.register, value |-> c.value] : c \in CommandInputs}
    \cup UNION {{[class |-> "Multiple", device_id |-> d, function |-> fn,
                  start |-> r[1], end |-> r[2], values |-> v] :
                    v \in ValueBytes(n)} :
            d \in {QMN1, PVP2},
            fn \in {READ_HOLDING_REGISTER, PRESET_MULTIPLE_REGISTER},
            r \in CommandRanges, n \in 0..MaxValueBytes}
    \cup UNION {{[class |-> "MultipleSerial", device_id |-> d,
                  function |-> PRESET_MULTIPLE_REGISTER,
                  start |-> r[1], end |-> r[2], value |-> v] :
                    v \in {Fill("ascii", n)}} :
            d \in {QMN1, PVP2}, r \in CommandRanges, n \in 0..(MaxValueBytes + 1)}

\* cmd.build_grobro() for the command held in msg
BuildCommand ==
    /\ pc = "command"
    /\ built' = CommandBuild(msg)
    /\ pc' = IF built' = Raised THEN "raised" ELSE "built"
    /\ UNCHANGED <<buffer, frame, result, msg, query, data>>
    /\ UNCHANGED clientVars

\* GrowattModbusFunctionSingle.parse_grobro and its siblings:
\* struct.unpack(">HHHBB30sHH", buffer[0:42]) of the frame built
UnpackCommand ==
    /\ pc = "built"
    /\ frame' = [unknown   |-> UnpackH(SubSeq(built.bytes, 1, 2)),
                 constant  |-> UnpackH(SubSeq(built.bytes, 3, 4)),
                 msg_len   |-> UnpackH(SubSeq(built.bytes, 5, 6)),
                 address   |-> built.bytes[7],
                 function  |-> built.bytes[8],
                 device_id |-> StripNul(DecodeAsciiIgnore(SubSeq(built.bytes, 9, 38))),
                 a         |-> UnpackH(SubSeq(built.bytes, 39, 40)),
                 b         |-> UnpackH(SubSeq(built.bytes, 41, 42)),
                 values    |-> SubSeq(built.bytes, 43, Len(built.bytes))]
    /\ pc' = "unpacked"
    /\ UNCHANGED <<buffer, result, msg, built, query, data>>
    /\ UNCHANGED clientVars

InitFrames ==
    /\ msg \in FrameInputs
    /\ pc = "command"
    /\ buffer = <<>>
    /\ frame = NoneVal
    /\ result = NoneVal
    /\ built = NoneVal
    /\ query = NoneVal
    /\ data = NoneVal
    /\ ClientIdle

NextFrames == BuildCommand \/ UnpackCommand

SpecFrames == InitFrames /\ [][NextFrames]_vars

\* C16: every command frame starts with unknown = 1, constant = 7,
\* device address = 1 and the 30-byte NUL-padded device id; a single-register
\* frame has length field 36 and carries the register and the value; a
\* multi-register frame carries start and end and a value payload of exactly
\* (end - start + 1) * 2 bytes, with length field 36 plus that payload size.
C16_CommandFrameLayout ==
    pc = "unpacked" =>
        /\ frame.unknown = 1
        /\ frame.constant = 7
        /\ frame.address = 1
        /\ SubSeq(built.bytes, 9, 38) = LJust(msg.device_id, 30)
        /\ msg.class = "Single" =>
              /\ frame.msg_len = 36
              /\ frame.a = msg.register
              /\ frame.b = msg.value
              /\ frame.values = <<>>
        /\ msg.class # "Single" =>
              /\ frame.a = msg.start
              /\ frame.b = msg.end
              /\ Len(frame.values) = (msg.end - msg.start + 1) * 2
              /\ frame.msg_len = 36 + Len(frame.values)

-----------------------------------------------------------------------------
(* GrowattRegisterDataType.parse of a raw span *)

MaxRawLen == 6

TimeType == [data_type |-> "TIME_HHMM", float_options |-> NoneVal, enum_options |-> NoneVal]

StringType == [data_type |-> "STRING", float_options |-> NoneVal, enum_options |-> NoneVal]

\* an ENUM BITFIELD whose catalog names bits 0 and 2
BitfieldType ==
    EnumType("BITFIELD", {[key |-> 0, name |-> "grid"], [key |-> 2, name |-> "battery"]})

DataTypes ==
    {IntType, TimeType, StringType, BitfieldType, FloatType(100, 0), FloatType(1000, 500),
     EnumType("INT_MAP", {[key |-> 3, name |-> "Normal"], [key |-> 16, name |-> "Fault"]})}

\* raw spans: what get_data returns
RawSpans ==
    {NoneVal}
    \cup {Bytes(Fill(k, n)) : k \in Kinds, n \in 0..MaxRawLen}
    \cup {Bytes(b) : b \in {<<0, 5>>, <<5>>, <<65, 200, 66, 0>>, <<0, 65, 66, 0>>,
                            <<65, 0, 66, 0, 0, 0>>}}

\* register.growatt.data.parse(data_raw)
ParseRegister ==
    /\ pc = "decode"
    /\ result' = parse(query, data)
    /\ pc' = IF result' = Raised THEN "raised" ELSE "decoded"
    /\ UNCHANGED <<buffer, frame, msg, built, query, data>>
    /\ UNCHANGED clientVars

\* the caller goes on to the next register
NextRegister ==
    /\ pc \in {"decoded", "raised"}
    /\ pc' = "next"
    /\ UNCHANGED <<buffer, frame, result, msg, built, query, data>>
    /\ UNCHANGED clientVars

InitRegister ==
    /\ query \in DataTypes
    /\ data \in RawSpans
    /\ pc = "decode"
    /\ buffer = <<>>
    /\ frame = NoneVal
    /\ result = NoneVal
    /\ msg = NoneVal
    /\ built = NoneVal
    /\ ClientIdle

NextRegisterSpec == ParseRegister \/ NextRegister

SpecRegister == InitRegister /\ [][NextRegisterSpec]_vars

\* parse has been applied to a non-empty span
Applied == pc \in {"decoded", "raised"} /\ data # NoneVal /\ data.bytes # <<>>

\* a text without its trailing NULs
RStripNul(str) ==
    LET nz == {i \in 1..Len(str) : str[i] # 0}
    IN  IF nz = {} THEN <<>>
        ELSE SubSeq(str, 1, CHOOSE i \in nz : \A j \in nz : i >= j)

\* C17: parse with data type STRING, applied to a span of any non-zero
\* length, returns the ASCII text of the span with undecodable bytes dropped
\* and only trailing NULs removed; it does not fail on the span's width.
C17_StringAnyWidth ==
    Applied /\ query.data_type = "STRING"
        => result = StrVal(RStripNul(DecodeAsciiIgnore(data.bytes)))

\* the bits of a value, lowest first
Bit(value, n) == (value \div (2 ^ n)) % 2 = 1

\* C18: parse with ENUM / BITFIELD, applied to a non-empty span, returns a
\* mapping with one entry per bit position the catalog names, true exactly
\* when that bit is set in the raw value.
C18_BitfieldMapping ==
    Applied /\ query.data_type = "ENUM" /\ query.enum_options.enum_type = "BITFIELD"
            /\ Len(data.bytes) \in {1, 2, 4}
        => result = [t |-> "map",
                     v |-> {[name |-> e.name, set |-> Bit(UnpackUInt(data.bytes), e.key)] :
                              e \in query.enum_options.values}]

-----------------------------------------------------------------------------
(* ha/client.py: consumer commands *)

\* msg.topic.split("/")
RECURSIVE Split(_)
Split(topic) ==
    LET slashes == {i \in 1..Len(topic) : topic[i] = 47}
    IN  IF slashes = {} THEN <<topic>>
        ELSE LET i == CHOOSE a \in slashes : \A b \in slashes : a <= b
             IN  <<SubSeq(topic, 1, i - 1)>> \o Split(SubSeq(topic, i + 1, Len(topic)))

\* the ASCII text of the words the handler compares with
Ascii(word) ==
    CASE word = "number"      -> <<110, 117, 109, 98, 101, 114>>
      [] word = "button"      -> <<98, 117, 116, 116, 111, 110>>
      [] word = "switch"      -> <<115, 119, 105, 116, 99, 104>>
      [] word = "sensor"      -> <<115, 101, 110, 115, 111, 114>>
      [] word = "grobro"      -> <<103, 114, 111, 98, 114, 111>>
      [] word = "other"       -> <<111, 116, 104, 101, 114>>
      [] word = "set"         -> <<115, 101, 116>>
      [] word = "read"        -> <<114, 101, 97, 100>>
      [] word = "enable"      -> <<101, 110, 97, 98, 108, 101>>
      [] word = "power_limit" -> <<112, 111, 119, 101, 114, 95, 108, 105, 109, 105, 116>>
      [] word = "restart"     -> <<114, 101, 115, 116, 97, 114, 116>>
      [] word = "bogus"       -> <<98, 111, 103, 117, 115>>

\* get_known_registers: the same prefix ladder as the gateway client's
get_known_registers(device_id) == known_registers(device_id)

\* known_registers.holding_registers.get(cmd_name)
HoldingGet(registers, cmd_name) ==
    LET hits == {i \in 1..Len(registers) : Ascii(registers[i].name) = cmd_name}
    IN  IF hits = {} THEN NoneVal ELSE registers[CHOOSE i \in hits : TRUE]

\* obj.register_no on a catalog entry: AttributeError when the entry has no
\* such field
register_no(obj) ==
    IF "register_no" \in DOMAIN obj THEN Some(obj.register_no) ELSE Raised

\* msg.payload.decode(): the inputs are ASCII texts and a lone byte 0xC8,
\* which is not UTF-8
PayloadDecode(payload) ==
    IF \E i \in 1..Len(payload) : payload[i] >= 128 THEN Raised ELSE Bytes(payload)

IsDigits(text) == text # <<>> /\ \A i \in 1..Len(text) : text[i] \in 48..57

RECURSIVE DigitsValue(_)
DigitsValue(text) ==
    IF text = <<>> THEN 0
    ELSE DigitsValue(SubSeq(text, 1, Len(text) - 1)) * 10 + (text[Len(text)] - 48)

\* try: int(msg.payload.decode()) except ValueError: str(msg.payload.decode())
\* UnicodeDecodeError is a ValueError, so the except clause decodes again
\* and the second error leaves the handler
PayloadValue(payload) ==
    LET text == PayloadDecode(payload)
    IN  IF text = Raised THEN Raised
        ELSE IF IsDigits(text.bytes) THEN IntVal(DigitsValue(text.bytes))
        ELSE StrVal(text.bytes)

\* GrowattModbusFunction.WRITE_SINGLE_REGISTER
WRITE_SINGLE_REGISTER == 6

\* make_modbus_command: GrowattModbusFunctionSingle(register: int, value: int)
\* rejects a value that is not an integer; value is NoneVal when not given
make_modbus_command(device_id, func, register, value) ==
    IF value = NoneVal
    THEN [device_id |-> device_id, function |-> func, register |-> register,
          value |-> register]
    ELSE IF value.t # "int" THEN Raised
    ELSE [device_id |-> device_id, function |-> func, register |-> register,
          value |-> value.v]

\* self.on_command(make_modbus_command(...))
OnCommand(cmd) ==
    IF cmd = Raised THEN [outcome |-> "raised", commands |-> <<>>]
    ELSE [outcome |-> "returned", commands |-> <<cmd>>]

\* ha Client.__on_message
ha_on_message(m) ==
    LET parts    == Split(m.topic)
        returned == [outcome |-> "returned", commands |-> <<>>]
        raised   == [outcome |-> "raised", commands |-> <<>>]
    IN  IF ~(Len(parts) = 5
             /\ parts[1] \in {Ascii("number"), Ascii("button"), Ascii("switch")})
        THEN returned
        ELSE
        LET cmd_type  == parts[1]
            device_id == parts[3]
            cmd_name  == parts[4]
            action    == parts[5]
            registers == get_known_registers(device_id)
        IN  IF registers = NoneVal THEN returned
            ELSE
            LET pos == HoldingGet(registers.holding_registers, cmd_name)
            IN  IF pos = NoneVal THEN returned
                ELSE IF cmd_type = Ascii("button") /\ action = Ascii("read")
                THEN LET r == register_no(pos)
                     IN  IF r = Raised THEN raised
                         ELSE OnCommand(make_modbus_command(
                                  device_id, READ_SINGLE_REGISTER, r.some, NoneVal))
                ELSE IF cmd_type \in {Ascii("number"), Ascii("switch")}
                        /\ action = Ascii("set")
                THEN LET payload == PayloadValue(m.payload)
                         r       == register_no(pos)
                     IN  IF payload = Raised \/ r = Raised THEN raised
                         ELSE OnCommand(make_modbus_command(
                                  device_id, WRITE_SINGLE_REGISTER, r.some, payload))
                ELSE returned

\* topics of five segments, and topics with one segment less or more
Join(parts) ==
    parts[1] \o <<47>> \o parts[2] \o <<47>> \o parts[3] \o <<47>> \o parts[4]
        \o <<47>> \o parts[5]

CommandTopics ==
    LET five == {<<Ascii(t), Ascii(g), d, Ascii(c), Ascii(a)>> :
                    t \in {"number", "button", "switch", "sensor"},
                    g \in {"grobro", "other"},
                    d \in {QMN1, PVP2, XYZ9},
                    c \in {"enable", "power_limit", "restart", "bogus"},
                    a \in {"set", "read"}}
    IN  {Join(p) : p \in five}
        \cup {Join(p) \o <<47>> \o Ascii("set") : p \in five}
        \cup {p[1] \o <<47>> \o p[3] \o <<47>> \o p[4] \o <<47>> \o p[5] : p \in five}

\* "1", "0", "42", "ON", "OFF", "", and a byte that is not UTF-8
CommandPayloads ==
    {<<49>>, <<48>>, <<52, 50>>, <<79, 78>>, <<79, 70, 70>>, <<>>, <<200>>}

ConsumerMessages ==
    {[topic |-> t, payload |-> p] : t \in CommandTopics, p \in CommandPayloads}

\* a consumer message arrives
HaReceive ==
    /\ inflight = NoneVal
    /\ handled = NoneVal
    /\ \E m \in ConsumerMessages : inflight' = [msg |-> m]
    /\ UNCHANGED <<env, catalog, forward_clients, connections, handled, outbox, threads,
                   sender>>
    /\ UNCHANGED codecVars

\* the handler runs on it
HaOnMessage ==
    /\ inflight # NoneVal
    /\ handled' = [msg |-> inflight.msg, effects |-> ha_on_message(inflight.msg)]
    /\ inflight' = NoneVal
    /\ UNCHANGED <<env, catalog, forward_clients, connections, outbox, threads, sender>>
    /\ UNCHANGED codecVars

\* the handler has returned: the network loop goes on to the next message
HaReturns ==
    /\ handled # NoneVal
    /\ handled.effects.outcome = "returned"
    /\ handled' = NoneVal
    /\ UNCHANGED <<env, catalog, forward_clients, connections, inflight, outbox, threads,
                   sender>>
    /\ UNCHANGED codecVars

\* KNOWN_NEO_REGISTERS, KNOWN_NOAH_REGISTERS and KNOWN_NEXA_REGISTERS as the
\* consumer client imports them: entries bind a name to a device-side
\* position with its data type and to the presentation metadata
HaCatalogs == Catalogs

InitHa ==
    /\ env = NoneVal
    /\ catalog \in HaCatalogs
    /\ forward_clients = <<>>
    /\ connections = <<>>
    /\ inflight = NoneVal
    /\ handled = NoneVal
    /\ outbox = <<>>
    /\ threads = <<>>
    /\ sender = NoneVal
    /\ CodecIdle

NextHa == HaReceive \/ HaOnMessage \/ HaReturns

SpecHa == InitHa /\ [][NextHa]_vars

\* the parts of the handled topic, and what C19 calls a well-formed command:
\* <type>/grobro/<deviceId>/<commandName>/<action>, a known family, a name in
\* the family's holding registers
HaParts == Split(handled.msg.topic)

HaEntry == HoldingGet(get_known_registers(HaParts[3]).holding_registers, HaParts[4])

KnownCommand ==
    /\ Len(HaParts) = 5
    /\ HaParts[2] = Ascii("grobro")
    /\ get_known_registers(HaParts[3]) # NoneVal
    /\ HaEntry # NoneVal
    /\ HaEntry.growatt # NoneVal

HaRegister == HaEntry.growatt.position.register_no

HaPayloadIsInt == IsDigits(handled.msg.payload)

\* C19: for a well-formed command the handler invokes on_command exactly
\* once, for button/read with a ReadSingle command whose register and value
\* are the register number, for number or switch with set with a WriteSingle
\* command for that register whose value is the payload (ON/OFF included);
\* for an unknown family, an unknown name or another topic shape it invokes
\* on_command zero times.
C19_CommandTranslated ==
    handled # NoneVal =>
        LET commands == handled.effects.commands
        IN  IF KnownCommand /\ HaParts[1] = Ascii("button") /\ HaParts[5] = Ascii("read")
            THEN commands = <<[device_id |-> HaParts[3],
                               function  |-> READ_SINGLE_REGISTER,
                               register  |-> HaRegister,
                               value     |-> HaRegister]>>
            ELSE IF KnownCommand /\ HaParts[1] \in {Ascii("number"), Ascii("switch")}
                    /\ HaParts[5] = Ascii("set")
                    /\ PayloadDecode(handled.msg.payload) # Raised
            THEN /\ Len(commands) = 1
                 /\ commands[1].device_id = HaParts[3]
                 /\ commands[1].function = PRESET_SINGLE_REGISTER
                 /\ commands[1].register = HaRegister
                 /\ IF HaPayloadIsInt
                    THEN commands[1].value = DigitsValue(handled.msg.payload)
                    ELSE commands[1].value = StrVal(handled.msg.payload)
            ELSE (~(Len(HaParts) = 5 /\ HaParts[2] = Ascii("grobro"))
                  \/ get_known_registers(HaParts[3]) = NoneVal
                  \/ HaEntry = NoneVal)
                 => commands = <<>>

====
